---- MODULE Spec2Model ----
(***************************************************************************)
(* Model of the Signal K client (signalk-client.ts) and of its stream      *)
(* transport (stream-api.ts): endpoint discovery, endpoint resolution,     *)
(* the WebSocket life cycle, the connection watchdog, the version and      *)
(* token setters, inbound frames and outgoing messages.                    *)
(*                                                                         *)
(* JavaScript is single threaded: every action below is one handler run    *)
(* to completion (a public method call, the continuation of an awaited     *)
(* fetch together with the promise reactions it triggers, a timer          *)
(* callback, or a socket event).                                           *)
(***************************************************************************)
EXTENDS Integers, Sequences, FiniteSets, TLC

(***************************************************************************)
(* Bounds                                                                  *)
(***************************************************************************)
\* number of WebSocket objects a behaviour may create
MaxSockets == 2
\* number of connect()/connectStream()/connectPlayback() calls in flight
MaxCalls == 1
\* number of connect() calls in flight where calls overlap
MaxOverlap == 2

SocketIds == 1..MaxSockets
CallIds == 1..MaxCalls
OverlapIds == 1..MaxOverlap
\* this.ws === undefined
NoSocket == 0

(***************************************************************************)
(* WebSocket.readyState values                                             *)
(***************************************************************************)
CONNECTING == 0
OPEN == 1
CLOSING == 2
CLOSED == 3

(***************************************************************************)
(* Inputs                                                                  *)
(***************************************************************************)
\* (hostname, port, useSSL) triples handed to connect()
Targets ==
  { [host |-> "h1", port |-> 3000, ssl |-> FALSE],
    [host |-> "h2", port |-> 3100, ssl |-> TRUE] }
NoTarget == [host |-> "", port |-> 0, ssl |-> FALSE]

\* major versions handed to the version setter
VersionNumbers == {1, 2}
VLabel(n) == "v" \o ToString(n)

\* a property that is absent from a JSON object reads as undefined
Undefined == "<undefined>"
\* the value null
Null == "<null>"
Truthy(s) == s # "" /\ s # Undefined /\ s # Null
\* template literal `${x}`
Str(s) == IF s = Undefined THEN "undefined" ELSE s

\* an endpoint descriptor of the hello response
EndPoint(h, w) == [http |-> h, ws |-> w]
\* an object with no keys
NoEndpoints == [k \in {} |-> EndPoint("", "")]
\* obj[k] is an object (not undefined)
Has(eps, k) == k \in DOMAIN eps

(***************************************************************************)
(* Strings                                                                 *)
(***************************************************************************)
\* s.indexOf(sub), counted from 1; 0 when sub does not occur
IndexOf(s, sub) ==
  LET hits == {i \in 1..(Len(s) - Len(sub) + 1) : SubSeq(s, i, i + Len(sub) - 1) = sub}
  IN IF hits = {} THEN 0 ELSE CHOOSE i \in hits : \A j \in hits : i <= j
\* s.indexOf(sub) != -1
Contains(s, sub) == IndexOf(s, sub) # 0
\* s.replace(a, b) with a string pattern: the first occurrence only
ReplaceFirst(s, a, b) ==
  LET i == IndexOf(s, a)
  IN IF i = 0 THEN s
     ELSE SubSeq(s, 1, i - 1) \o b \o SubSeq(s, i + Len(a), Len(s))
\* the number of times the character c occurs in s
RECURSIVE Count(_, _)
Count(s, c) ==
  IF s = "" THEN 0
  ELSE (IF SubSeq(s, 1, 1) = c THEN 1 ELSE 0) + Count(SubSeq(s, 2, Len(s)), c)

VARIABLES
  \* ---- SignalKStream ----
  ws,              \* this.ws: index into readyState, or NoSocket
  readyState,      \* readyState of every WebSocket constructed so far
  timers,          \* sockets whose open() armed a watchdog that has not fired yet
  streamEndpoint,  \* stream.endpoint
  streamVersion,   \* stream.version
  \* ---- SignalKHttp ----
  apiEndpoint,     \* api.endpoint
  apiVersion,      \* api.version
  \* ---- SignalKClient ----
  hostname, port, protocol,
  version,         \* this._version, a label such as "v1"
  fallback, proxied,
  fbHttp, fbWs,    \* fallbackEndpoints.endpoints.v1["signalk-http" / "signalk-ws"]
  srvAlias,        \* server.endpoints is the fallbackEndpoints.endpoints object itself
  srvOwn,          \* server.endpoints when it is an object of its own (else unused)
  srvInfo,         \* server.info
  apiVersions,     \* server.apiVersions
  clientToken,     \* SignalKClient._token
  apiToken,        \* SignalKHttp._token
  \* ---- SignalKStream: messages ----
  streamToken,     \* SignalKStream._token
  tokenSource,     \* the handler that last assigned SignalKStream._token
  filter,          \* SignalKStream._filter
  selfId,          \* SignalKStream.selfId
  playbackMode,    \* SignalKStream._playbackMode
  \* ---- control ----
  calls,           \* connect calls awaiting the hello response
  last,            \* the handler that ran last, its arguments and its outcome
  inbound,         \* the frame the handler that ran last was given, if any
  emitted,         \* the events the handler that ran last emitted, in order
  sent,            \* the messages the handler that ran last handed to a socket
  opened,          \* the url the handler that ran last gave to new WebSocket, or ""
  fetched,         \* the requests the handler that ran last issued through the
                   \* REST transport or as logout()
  filterArg,       \* the value last assigned to stream.filter
  filterSelf       \* selfId as it was when stream.filter was last assigned

streamVars == <<ws, readyState, timers>>
transportVars == <<streamEndpoint, apiEndpoint>>
versionVars == <<version, streamVersion, apiVersion>>
hostVars == <<hostname, port, protocol, fbHttp, fbWs>>
serverVars == <<srvAlias, srvOwn, srvInfo, apiVersions>>
flagVars == <<fallback, proxied>>
tokenVars == <<clientToken, apiToken, streamToken, tokenSource>>
msgVars == <<filter, selfId, playbackMode, filterArg, filterSelf>>
ioVars == <<inbound, emitted, sent, opened, fetched>>
vars == <<streamVars, transportVars, versionVars, hostVars, serverVars, flagVars,
          tokenVars, msgVars, ioVars, calls, last>>

(***************************************************************************)
(* SignalKStream: the socket, close(), open(), the watchdog, isOpen        *)
(***************************************************************************)
\* the stream transport's socket state as one value, so that handlers which
\* call close() and open() in sequence can be composed
Stream(w, rs, tm) == [ws |-> w, rs |-> rs, tm |-> tm]
CurStream == Stream(ws, readyState, timers)

\* WebSocket.close(): starts the closing handshake of a socket that is
\* connecting or open, does nothing on one that is closing or closed
WsClose(rs, s) ==
  IF rs[s] \in {CONNECTING, OPEN} THEN [rs EXCEPT ![s] = CLOSING] ELSE rs

\* SignalKStream.close()
Close(st) ==
  IF st.ws # NoSocket
    THEN Stream(NoSocket, WsClose(st.rs, st.ws), st.tm)
    ELSE st

\* open() without the close() call
Open_NoClose(st, url, endpoint) ==
  LET u == IF url # "" THEN url ELSE endpoint
      id == Len(st.rs) + 1
  IN IF u = "" THEN st
     ELSE Stream(id, Append(st.rs, CONNECTING), st.tm \cup {id})

\* SignalKStream.open(url, ...): the url defaults to stream.endpoint; without
\* one open() returns at once; otherwise close(), new WebSocket(url), and
\* the watchdog of the new socket is armed
Open(st, url, endpoint) ==
  LET u == IF url # "" THEN url ELSE endpoint
      c == Close(st)
      id == Len(c.rs) + 1
  IN IF u = "" THEN st
     ELSE Stream(id, Append(c.rs, CONNECTING), c.tm \cup {id})

\* the watchdog without the test for an open socket
Watchdog_ClosesOpen(st) ==
  IF st.ws # NoSocket /\ st.rs[st.ws] # CLOSED
    THEN Close(st)
    ELSE st

\* the setTimeout callback of open(): it looks at this.ws as it is when the
\* timer fires
Watchdog(st) ==
  IF st.ws # NoSocket /\ st.rs[st.ws] # OPEN /\ st.rs[st.ws] # CLOSED
    THEN Close(st)
    ELSE st

\* get isOpen
IsOpen(st) ==
  IF st.ws # NoSocket /\ st.rs[st.ws] # OPEN /\ st.rs[st.ws] # CLOSED
    THEN TRUE
    ELSE FALSE

\* open() constructs a WebSocket unless it returns early
Creates(url, endpoint) == url # "" \/ endpoint # ""

\* the record kept in last: the handler, the connect method and target it
\* belongs to, how the hello request ended, the state the promise returned to
\* the caller is left in, and the socket concerned
Done(op, kind, target, hello, result, sock) ==
  [op |-> op, kind |-> kind, target |-> target, hello |-> hello,
   result |-> result, sock |-> sock]
Last(op, sock) == Done(op, "", NoTarget, "", "", sock)

SetStream(st) ==
  /\ ws' = st.ws
  /\ readyState' = st.rs
  /\ timers' = st.tm

\* urls a caller hands to stream.open(); "" stands for null / undefined
OpenUrls == {"", "ws://h1:3000/signalk/v1/stream"}

(***************************************************************************)
(* Frames, events and messages                                             *)
(***************************************************************************)
\* what a MessageEvent carries: e.data is not a string ("binary"), a string
\* that JSON.parse rejects ("badjson"), the text null ("null"), a JSON number,
\* string or boolean ("primitive"), or a JSON object ("object") whose fields
\* read Undefined when they are absent; login is the nested login object
Frame(kind, ver, slf, startTime, context, requestId, hasLogin, loginToken) ==
  [kind |-> kind, version |-> ver, self |-> slf, startTime |-> startTime,
   context |-> context, requestId |-> requestId, hasLogin |-> hasLogin,
   loginToken |-> loginToken]
Bare(kind) ==
  Frame(kind, Undefined, Undefined, Undefined, Undefined, Undefined, FALSE, Undefined)
\* no frame was handled
NoFrame == Bare("none")
\* JSON.parse(e.data) threw
BadJson == Bare("badjson")

\* an event handed to events.emit by a handler of socket sock
Event(ev, sock) == [ev |-> ev, sock |-> sock]

\* a handler that constructs no WebSocket and issues no request
Offline ==
  /\ opened' = ""
  /\ fetched' = << >>
\* a handler that is given no frame, emits nothing and sends nothing
Silent ==
  /\ inbound' = NoFrame
  /\ emitted' = << >>
  /\ sent' = << >>
  /\ Offline
\* a handler that in addition leaves the tokens and the message state alone
Idle ==
  /\ Silent
  /\ UNCHANGED <<tokenVars, msgVars>>
\* a socket handler that only emits ev
Emits(ev, s) ==
  /\ inbound' = NoFrame
  /\ emitted' = <<Event(ev, s)>>
  /\ sent' = << >>
  /\ Offline
  /\ UNCHANGED <<tokenVars, msgVars>>

\* open(url, subscribe, token): the url it gives to new WebSocket ("" when it
\* returns without one); own is this._token
OpenUrl(url, endpoint, subscribe, token, own) ==
  LET u == IF url # "" THEN url ELSE endpoint
      q == IF Contains(u, "?") THEN "&" ELSE "?"
      u1 == IF Truthy(subscribe) THEN u \o q \o "subscribe=" \o subscribe ELSE u
      u2 == IF Truthy(own) \/ Truthy(token)
              THEN u1 \o (IF Truthy(subscribe) THEN "&" ELSE "?") \o "token="
                      \o (IF Truthy(own) THEN own ELSE Str(token))
              ELSE u1
  IN IF u = "" THEN "" ELSE u2

\* a handler that may construct a WebSocket at u and does nothing else that
\* can be observed
Opens(u) ==
  /\ inbound' = NoFrame
  /\ emitted' = << >>
  /\ sent' = << >>
  /\ opened' = u
  /\ fetched' = << >>
  /\ UNCHANGED <<tokenVars, msgVars>>

\* the application calls stream.open(url, subscribe, token)
StreamOpenWith(url, subscribe, token) ==
  /\ Creates(url, streamEndpoint) => Len(readyState) < MaxSockets
  /\ SetStream(Open(CurStream, url, streamEndpoint))
  /\ last' = Done("open", IF url = "" THEN "null" ELSE "url", NoTarget, "", "",
                  IF Creates(url, streamEndpoint) THEN Len(readyState) + 1 ELSE NoSocket)
  /\ Opens(OpenUrl(url, streamEndpoint, subscribe, token, streamToken))
  /\ UNCHANGED <<transportVars, versionVars, hostVars, serverVars, flagVars, calls>>

\* the application calls stream.open(url)
StreamOpen(url) == StreamOpenWith(url, Undefined, Undefined)

\* the application calls stream.close()
StreamClose ==
  /\ SetStream(Close(CurStream))
  /\ last' = Last("close", ws)
  /\ Idle
  /\ UNCHANGED <<transportVars, versionVars, hostVars, serverVars, flagVars, calls>>

\* ws.onopen: the connection of socket s is established
SocketOpened(s) ==
  /\ s \in 1..Len(readyState)
  /\ readyState[s] = CONNECTING
  /\ readyState' = [readyState EXCEPT ![s] = OPEN]
  /\ last' = Last("onopen", s)
  /\ Emits("connect", s)
  /\ UNCHANGED <<ws, timers, transportVars, versionVars, hostVars, serverVars,
                 flagVars, calls>>

\* ws.onclose: socket s reaches CLOSED (the connection failed, the peer closed
\* it, or the closing handshake started by close() completed)
SocketClosed(s) ==
  /\ s \in 1..Len(readyState)
  /\ readyState[s] # CLOSED
  /\ readyState' = [readyState EXCEPT ![s] = CLOSED]
  /\ last' = Last("onclose", s)
  /\ Emits("close", s)
  /\ UNCHANGED <<ws, timers, transportVars, versionVars, hostVars, serverVars,
                 flagVars, calls>>

\* the connection of socket s fails: the socket reaches CLOSED and its error
\* and close events are fired one after the other, so ws.onerror and then
\* ws.onclose run
SocketFailed(s) ==
  /\ s \in 1..Len(readyState)
  /\ readyState[s] # CLOSED
  /\ readyState' = [readyState EXCEPT ![s] = CLOSED]
  /\ last' = Last("onerror", s)
  /\ inbound' = NoFrame
  /\ emitted' = <<Event("error", s), Event("close", s)>>
  /\ sent' = << >>
  /\ Offline
  /\ UNCHANGED <<ws, timers, transportVars, versionVars, hostVars, serverVars,
                 flagVars, tokenVars, msgVars, calls>>

\* the watchdog armed by the open() that created socket s fires; "warned"
\* records that it took the branch that logs the warning and calls close()
WatchdogFire(s) ==
  /\ s \in timers
  /\ SetStream(LET st == Watchdog(CurStream) IN Stream(st.ws, st.rs, st.tm \ {s}))
  /\ last' = Done("watchdog", "", NoTarget, "",
                  IF Watchdog(CurStream) # CurStream THEN "warned" ELSE "", s)
  /\ Idle
  /\ UNCHANGED <<transportVars, versionVars, hostVars, serverVars, flagVars, calls>>

(***************************************************************************)
(* SignalKStream: the filter setter and parseOnMessage                     *)
(***************************************************************************)
\* id.indexOf("self") != -1
ContainsSelf(id) == \E i \in 1..(Len(id) - 3) : SubSeq(id, i, i + 3) = "self"

\* the filter setter storing its argument as it is
FilterValue_Literal(id, sid) == id
\* the filter setter never using selfId
FilterValue_NeverSelf(id, sid) ==
  IF Truthy(id) /\ ContainsSelf(id) THEN "" ELSE id

\* set filter(id): the value it leaves in _filter when selfId is sid
FilterValue(id, sid) ==
  IF Truthy(id) /\ ContainsSelf(id)
    THEN IF Truthy(sid) THEN sid ELSE ""
    ELSE id

\* isHello with a test that the message is not a response
IsHello_NotResponse(f) ==
  f.version # Undefined /\ f.self # Undefined /\ f.requestId = Undefined
\* isHello(msg)
IsHello(f) == f.version # Undefined /\ f.self # Undefined
\* isResponse(msg)
IsResponse(f) == f.requestId # Undefined
\* isDelta that recognises no message
IsDelta_Never(f) == FALSE
\* isDelta(msg)
IsDelta(f) == f.context # Undefined

\* the part of the stream's state parseOnMessage reads and writes
MsgState(flt, sid, pb, tok) ==
  [filter |-> flt, selfId |-> sid, playbackMode |-> pb, token |-> tok]
\* what one run of parseOnMessage leaves: the fields it may write, whether it
\* emitted a message event, and whether it raised; captured tells that it
\* assigned _token
Parsed(sid, pb, tok, emits, raised) ==
  [selfId |-> sid, playbackMode |-> pb, token |-> tok, emits |-> emits,
   raised |-> raised, captured |-> FALSE]

\* parseOnMessage passing on what JSON.parse rejected
ParseOnMessage_EmitsUnparsed(f, cur) ==
  Parsed(cur.selfId, cur.playbackMode, cur.token, TRUE, FALSE)

\* parseOnMessage(e): a string that does not parse returns at once; data that
\* is undefined (e.data is not a string) or null makes isHello raise a
\* TypeError; otherwise Hello, then Response, then the filter, then the rest
ParseOnMessage(f, cur) ==
  IF f.kind = "badjson"
    THEN Parsed(cur.selfId, cur.playbackMode, cur.token, FALSE, FALSE)
  ELSE IF f.kind \in {"binary", "null"}
    THEN Parsed(cur.selfId, cur.playbackMode, cur.token, FALSE, TRUE)
  ELSE IF IsHello(f)
    THEN Parsed(f.self, f.startTime # Undefined, cur.token, TRUE, FALSE)
  ELSE IF IsResponse(f)
    THEN IF f.hasLogin /\ f.loginToken # Undefined
           THEN [Parsed(cur.selfId, cur.playbackMode, f.loginToken, TRUE, FALSE)
                   EXCEPT !.captured = TRUE]
           ELSE Parsed(cur.selfId, cur.playbackMode, cur.token, TRUE, FALSE)
  ELSE IF Truthy(cur.filter) /\ IsDelta(f)
    THEN Parsed(cur.selfId, cur.playbackMode, cur.token, f.context = cur.filter, FALSE)
  ELSE Parsed(cur.selfId, cur.playbackMode, cur.token, TRUE, FALSE)

\* stream.filter = id
SetFilter(id) ==
  /\ filter' = FilterValue(id, selfId)
  /\ filterArg' = id
  /\ filterSelf' = selfId
  /\ last' = Last("filter", NoSocket)
  /\ Silent
  /\ UNCHANGED <<streamVars, transportVars, versionVars, hostVars, serverVars,
                 flagVars, tokenVars, selfId, playbackMode, calls>>

\* ws.onmessage of socket s is given frame f; a socket delivers frames while
\* it is open and while its closing handshake is under way
OnMessage(s, f) ==
  /\ s \in 1..Len(readyState)
  /\ readyState[s] \in {OPEN, CLOSING}
  /\ LET r == ParseOnMessage(f, MsgState(filter, selfId, playbackMode, streamToken))
     IN /\ selfId' = r.selfId
        /\ playbackMode' = r.playbackMode
        /\ streamToken' = r.token
        /\ tokenSource' = IF r.captured THEN "onmessage" ELSE tokenSource
        /\ emitted' = IF r.emits THEN <<Event("message", s)>> ELSE << >>
        /\ last' = Done("onmessage", "", NoTarget, "",
                        IF r.raised THEN "raised" ELSE "", s)
  /\ inbound' = f
  /\ sent' = << >>
  /\ Offline
  /\ UNCHANGED <<streamVars, transportVars, versionVars, hostVars, serverVars,
                 flagVars, clientToken, apiToken, filter, filterArg, filterSelf, calls>>

(***************************************************************************)
(* Tokens and outgoing messages                                            *)
(***************************************************************************)
\* a message handed to ws.send: the method that built it, its token field
\* (Undefined when it has none), whether it has a login key
Message(op, tok, login) == [op |-> op, token |-> tok, login |-> login]

\* payloads handed to sendRequest: not an object, null, or an object with or
\* without a login key and with or without a token key of its own
Payloads == {"nonobject", "null", "plain", "login", "token", "login+token"}
HasLoginKey(p) == p \in {"login", "login+token"}
\* the value of the payload's own token key
OwnToken(p) == IF p \in {"token", "login+token"} THEN "X" ELSE Undefined

\* sendRequest attaching the session token to every envelope
RequestToken_Always(p, tok) ==
  IF OwnToken(p) # Undefined THEN OwnToken(p)
  ELSE IF Truthy(tok) THEN tok ELSE Undefined

\* sendRequest(value): the token field of the message it builds; the keys of
\* the payload are copied over the envelope
RequestToken(p, tok) ==
  IF OwnToken(p) # Undefined THEN OwnToken(p)
  ELSE IF ~HasLoginKey(p) /\ Truthy(tok) THEN tok ELSE Undefined

\* sendUpdate / subscribe / unsubscribe: the token field of the message
EnvelopeToken(tok) == IF Truthy(tok) THEN tok ELSE Undefined

\* WebSocket.send(data) by the readyState of the socket: a connecting socket
\* raises InvalidStateError, an open one transmits, and on a closing or closed
\* one the data is discarded silently or (Deno) InvalidStateError is raised
WsSend(rs) ==
  CASE rs = CONNECTING -> {"raised"}
    [] rs = OPEN -> {"sent"}
    [] OTHER -> {"dropped", "raised"}

\* SignalKStream.send(data): how the call can end; "" when ws.send is not
\* called
SendOutcomes(st) == IF st.ws # NoSocket THEN WsSend(st.rs[st.ws]) ELSE {""}

\* a method that builds msg and calls send(msg), ending as o
Transmit(op, payload, msg, o) ==
  /\ o \in SendOutcomes(CurStream)
  /\ sent' = IF o = "sent" THEN <<msg>> ELSE << >>
  /\ last' = Done(op, payload, NoTarget, "", o, ws)
  /\ inbound' = NoFrame
  /\ emitted' = << >>
  /\ Offline
  /\ UNCHANGED <<streamVars, transportVars, versionVars, hostVars, serverVars,
                 flagVars, tokenVars, msgVars, calls>>

\* stream.sendRequest(value), also reached through stream.put and stream.login
SendRequest(p, o) ==
  CASE p = "nonobject" ->
         /\ o = ""
         /\ last' = Done("sendRequest", p, NoTarget, "", "", NoSocket)
         /\ Idle
         /\ UNCHANGED <<streamVars, transportVars, versionVars, hostVars,
                        serverVars, flagVars, calls>>
    [] p = "null" ->
         /\ o = "raised"
         /\ last' = Done("sendRequest", p, NoTarget, "", "raised", NoSocket)
         /\ Idle
         /\ UNCHANGED <<streamVars, transportVars, versionVars, hostVars,
                        serverVars, flagVars, calls>>
    [] OTHER ->
         Transmit("sendRequest", p,
                  Message("request", RequestToken(p, streamToken), HasLoginKey(p)), o)

\* stream.sendUpdate(context, path, value)
SendUpdate(o) ==
  Transmit("sendUpdate", "", Message("updates", EnvelopeToken(streamToken), FALSE), o)

\* the options of subscribe: a function from the keys that are given to their
\* values; no keys when options is left out
NoOptions == << >>
AllowedFormats == {"delta", "full"}
AllowedPolicies == {"instant", "ideal", "fixed"}
\* if (options[k]) for a number and for a string
Given(options, k) ==
  /\ Has(options, k)
  /\ IF k \in {"period", "minPeriod"} THEN options[k] # 0 ELSE options[k] # ""

\* subscribe(context, path, options) with a string path: the entry pushed on
\* val.subscribe, as JSON.stringify writes it (a key whose value is undefined
\* is left out); minPeriod is assigned options["period"]
SubscriptionEntry(path, options) ==
  LET keys == {"path"}
                \cup {k \in {"period"} : Given(options, k)}
                \cup {k \in {"minPeriod"} :
                        Given(options, k) /\ Has(options, "period")}
                \cup {k \in {"format"} :
                        Given(options, k) /\ options[k] \in AllowedFormats}
                \cup {k \in {"policy"} :
                        Given(options, k) /\ options[k] \in AllowedPolicies}
  IN [k \in keys |-> CASE k = "path" -> path
                       [] k = "minPeriod" -> options["period"]
                       [] OTHER -> options[k]]

\* the message subscribe builds from Message.subscribe()
SubscribeMessage(context, path, options, tok) ==
  [op |-> "subscribe", token |-> EnvelopeToken(tok), login |-> FALSE,
   context |-> IF context = "self" THEN "vessels.self" ELSE context,
   subscribe |-> <<SubscriptionEntry(path, options)>>]

\* stream.subscribe(context, path, options) with a string path
SubscribeTo(context, path, options, o) ==
  Transmit("subscribe", "", SubscribeMessage(context, path, options, streamToken), o)

\* stream.subscribe(): context and path default to "*"
Subscribe(o) == SubscribeTo("*", "*", NoOptions, o)

\* stream.unsubscribe(context, path)
Unsubscribe(o) ==
  Transmit("unsubscribe", "", Message("unsubscribe", EnvelopeToken(streamToken), FALSE), o)

\* stream.send(data) called by the application with a message of its own
Send(o) ==
  Transmit("send", "", Message("raw", Undefined, FALSE), o)

\* client.authToken = val
AuthTokenSetter(val, by) ==
  /\ clientToken' = val
  /\ apiToken' = val
  /\ streamToken' = val
  /\ tokenSource' = by

\* the application assigns client.authToken
SetAuthToken(val) ==
  /\ AuthTokenSetter(val, "authToken")
  /\ last' = Last("authToken", NoSocket)
  /\ Silent
  /\ UNCHANGED <<streamVars, transportVars, versionVars, hostVars, serverVars,
                 flagVars, msgVars, calls>>

\* the POST of client.login() or client.validate() is answered: with ok and a
\* set-cookie header holding JAUTHENTICATION=<cookie> the token is stored
\* through the authToken setter; cookie is Undefined when no such cookie came
AuthResponse(method, ok, cookie) ==
  /\ IF ok /\ cookie # Undefined
       THEN AuthTokenSetter(cookie, method)
       ELSE UNCHANGED tokenVars
  /\ last' = Done(method, "", NoTarget, "", IF ok THEN "ok" ELSE "failed", NoSocket)
  /\ Silent
  /\ UNCHANGED <<streamVars, transportVars, versionVars, hostVars, serverVars,
                 flagVars, msgVars, calls>>

(***************************************************************************)
(* SignalKHttp: get, put, putWithContext, post, delete; logout             *)
(***************************************************************************)
\* a call of fetch: method, url, the text of the body (Undefined without one)
\* and the token of the Authorization header (Undefined without one)
Request(method, url, body, auth) ==
  [method |-> method, url |-> url, body |-> body, auth |-> auth]
\* the Authorization header is added when _token is truthy
AuthHeader(tok) == IF Truthy(tok) THEN tok ELSE Undefined

\* s.split(a).join(b) for a one character a
RECURSIVE ReplaceAll(_, _, _)
ReplaceAll(s, a, b) ==
  IF s = "" THEN ""
  ELSE (IF SubSeq(s, 1, 1) = a THEN b ELSE SubSeq(s, 1, 1))
         \o ReplaceAll(SubSeq(s, 2, Len(s)), a, b)
\* Path.dotToSlash(path): the dots before the first "?" become slashes
DotToSlash(path) ==
  LET q == IndexOf(path, "?")
      head == IF q = 0 THEN path ELSE SubSeq(path, 1, q - 1)
      tail == IF q = 0 THEN "" ELSE SubSeq(path, q, Len(path))
  IN ReplaceAll(head, ".", "/") \o tail
\* Path.contextToPath(context)
ContextToPath(context) ==
  ReplaceAll(IF context = "self" THEN "vessels.self" ELSE context, ".", "/")
\* if (path[0] === "/") path = path.slice(1)
StripSlash(path) ==
  IF path # "" /\ SubSeq(path, 1, 1) = "/" THEN SubSeq(path, 2, Len(path)) ELSE path

IsDigit(c) == c \in {"0", "1", "2", "3", "4", "5", "6", "7", "8", "9"}
\* the position after the run of digits that starts at k
RECURSIVE DigitsEnd(_, _)
DigitsEnd(s, k) ==
  IF k <= Len(s) /\ IsDigit(SubSeq(s, k, k)) THEN DigitsEnd(s, k + 1) ELSE k
\* endpoint.replace(new RegExp("/v[0-9]+/"), `/v${n}/`): the leftmost match
WithVersion(ep, n) ==
  LET m == {i \in 1..(Len(ep) - 3) :
              /\ SubSeq(ep, i, i + 1) = "/v"
              /\ DigitsEnd(ep, i + 2) > i + 2
              /\ DigitsEnd(ep, i + 2) <= Len(ep)
              /\ SubSeq(ep, DigitsEnd(ep, i + 2), DigitsEnd(ep, i + 2)) = "/"}
  IN IF m = {} THEN ep
     ELSE LET i == CHOOSE x \in m : \A y \in m : x <= y
          IN SubSeq(ep, 1, i - 1) \o "/v" \o ToString(n) \o "/"
               \o SubSeq(ep, DigitsEnd(ep, i + 2) + 1, Len(ep))

\* the first argument of a REST method is not a number: no version override
NoOverride == -1
\* the endpoint a REST method uses
RestEndpoint(ep, o) == IF o # NoOverride THEN WithVersion(ep, o) ELSE ep
\* the label kept in last for the override
OverrideLabel(o) == IF o # NoOverride THEN VLabel(o) ELSE ""

\* parseApiPut wrapping at every version
ParseApiPut_AlwaysWraps(v, value) == "{\"value\":" \o value \o "}"
\* JSON.stringify(parseApiPut(version, value)); value is the JSON text of the
\* value
ParseApiPut(v, value) ==
  IF v > 1 THEN value ELSE "{\"value\":" \o value \o "}"

\* a REST method without the test of this.endpoint
RestRequests_NoGuard(ep, req) == <<req>>
\* if (!this.endpoint) return; ... fetch(url, options)
RestRequests(ep, req) == IF ep = "" THEN << >> ELSE <<req>>

\* a REST method runs up to its await (or returns undefined at once)
RestCall(op, o, req) ==
  /\ fetched' = RestRequests(apiEndpoint, req)
  /\ last' = Done(op, OverrideLabel(o), NoTarget, "",
                  IF RestRequests(apiEndpoint, req) = << >> THEN "undefined" ELSE "pending",
                  NoSocket)
  /\ inbound' = NoFrame
  /\ emitted' = << >>
  /\ sent' = << >>
  /\ opened' = ""
  /\ UNCHANGED <<streamVars, transportVars, versionVars, hostVars, serverVars,
                 flagVars, tokenVars, msgVars, calls>>

\* api.get(path) / api.get(version, path)
RestGet(o, path) ==
  RestCall("get", o,
           Request("GET", RestEndpoint(apiEndpoint, o) \o StripSlash(DotToSlash(path)),
                   Undefined, AuthHeader(apiToken)))

\* api.put(path, value) / api.put(version, path, value)
RestPut(o, path, value) ==
  RestCall("put", o,
           Request("PUT", RestEndpoint(apiEndpoint, o) \o StripSlash(DotToSlash(path)),
                   ParseApiPut(IF o # NoOverride THEN o ELSE apiVersion, value),
                   AuthHeader(apiToken)))

\* api.putWithContext(context, path, value) /
\* api.putWithContext(version, context, path, value)
RestPutWithContext(o, context, path, value) ==
  RestCall("putWithContext", o,
           Request("PUT",
                   RestEndpoint(apiEndpoint, o)
                     \o (IF context # "" THEN ContextToPath(context) \o "/" ELSE "")
                     \o StripSlash(DotToSlash(path)),
                   ParseApiPut(IF o # NoOverride THEN o ELSE apiVersion, value),
                   AuthHeader(apiToken)))

\* api.post(path, value) / api.post(version, path, value)
RestPost(o, path, value) ==
  RestCall("post", o,
           Request("POST", RestEndpoint(apiEndpoint, o) \o StripSlash(DotToSlash(path)),
                   value, AuthHeader(apiToken)))

\* api.delete(path) / api.delete(version, path)
RestDelete(o, path) ==
  RestCall("delete", o,
           Request("DELETE", RestEndpoint(apiEndpoint, o) \o StripSlash(DotToSlash(path)),
                   Undefined, AuthHeader(apiToken)))

\* how the PUT of logout() ends: answered with an ok status, answered with an
\* error status, or the promise of fetch is rejected (no server, network error)
LogoutOutcomes == {"ok", "status", "rejected"}
\* fetch() reports every failure through the promise it returns; the call
\* itself does not raise
FetchRaises(outcome) == FALSE
\* logout(): try { fetch(url, options); return Promise.resolve(true) }
\* catch { return Promise.resolve(false) }
LogoutResult(outcome) == IF FetchRaises(outcome) THEN "false" ELSE "true"

\* client.logout(); outcome is how its request will end
Logout(outcome) ==
  /\ fetched' = <<Request("PUT",
                          protocol \o "://" \o hostname \o ":" \o ToString(port)
                            \o "/signalk/" \o version \o "/auth/logout",
                          Undefined, AuthHeader(clientToken))>>
  /\ last' = Done("logout", outcome, NoTarget, "", LogoutResult(outcome), NoSocket)
  /\ inbound' = NoFrame
  /\ emitted' = << >>
  /\ sent' = << >>
  /\ opened' = ""
  /\ UNCHANGED <<streamVars, transportVars, versionVars, hostVars, serverVars,
                 flagVars, tokenVars, msgVars, calls>>

(***************************************************************************)
(* SignalKClient: init, hello responses, processHello, endpoint resolution *)
(***************************************************************************)
\* SignalKClient.init(hostname, port, useSSL): the values it leaves in
\* hostname, protocol, port and in the two urls of fallbackEndpoints
InitClient(h, p, ssl, curHost) ==
  LET hn == IF h # "" THEN h ELSE curHost
      proto == IF ssl THEN "https" ELSE "http"
      pt == IF p # 0 THEN p ELSE IF ssl THEN 443 ELSE 80
      httpUrl == proto \o "://" \o hn \o ":" \o ToString(pt)
      wsUrl == (IF ssl THEN "wss" ELSE "ws") \o "://" \o hn \o ":" \o ToString(pt)
  IN [hostname |-> hn, protocol |-> proto, port |-> pt,
      fbHttp |-> httpUrl \o "/signalk/v1/api/",
      fbWs |-> wsUrl \o "/signalk/v1/stream"]

\* fallbackEndpoints.endpoints
FallbackEndpoints(h, w) == "v1" :> EndPoint(h, w)
\* fallbackEndpoints.server
FallbackServer == [id |-> "fallback", version |-> "1.43.0"]
\* the server.info of a client that knows no server
BlankInfo == [version |-> "", id |-> ""]

\* server.endpoints as the program reads it
ServerEndpoints == IF srvAlias THEN FallbackEndpoints(fbHttp, fbWs) ELSE srvOwn

\* SignalKClient.resolveStreamEndpoint()
ResolveStreamEndpoint(eps, v) ==
  IF Has(eps, v) /\ Truthy(eps[v].ws) THEN Str(eps[v].ws)
  ELSE IF Has(eps, "v1") /\ Truthy(eps["v1"].ws) THEN Str(eps["v1"].ws)
  ELSE ""

\* SignalKClient.resolveHttpEndpoint(): reading a property of the missing
\* endpoints["v1"] raises a TypeError
ResolveHttpEndpoint(eps, v) ==
  IF Has(eps, v)
    THEN IF Truthy(eps[v].http)
           THEN [throws |-> FALSE, url |-> Str(eps[v].http)]
           ELSE IF Has(eps, "v1")
                  THEN [throws |-> FALSE, url |-> Str(eps["v1"].http)]
                  ELSE [throws |-> TRUE, url |-> ""]
    ELSE [throws |-> FALSE, url |-> ""]

\* what a Signal K server at target t answers to GET /signalk: it reports the
\* address it listens on itself, plain http / ws on port 3000
ReportedUrl(t, v, scheme, leaf) ==
  scheme \o "://" \o t.host \o ":3000/signalk/" \o v \o "/" \o leaf
Shapes == {"none", "both", "http", "ws"}
ReportedEndPoint(t, v, shape) ==
  EndPoint(IF shape \in {"both", "http"} THEN ReportedUrl(t, v, "http", "api/") ELSE Undefined,
           IF shape \in {"both", "ws"} THEN ReportedUrl(t, v, "ws", "stream") ELSE Undefined)
ReportedEndpoints(t, s1, s2) ==
  [v \in {x \in {"v1", "v2"} : (IF x = "v1" THEN s1 ELSE s2) # "none"} |->
     ReportedEndPoint(t, v, IF v = "v1" THEN s1 ELSE s2)]
NodeServer == [id |-> "signalk-server-node", version |-> "1.40.0"]
NoResponse ==
  [present |-> FALSE, hasEndpoints |-> FALSE, endpoints |-> NoEndpoints,
   hasServer |-> FALSE, server |-> BlankInfo]
ResponsesFor(t) ==
  { [present |-> TRUE, hasEndpoints |-> TRUE, endpoints |-> ReportedEndpoints(t, s1, s2),
     hasServer |-> TRUE, server |-> NodeServer] : s1 \in Shapes, s2 \in Shapes }
  \cup
  { [present |-> TRUE, hasEndpoints |-> FALSE, endpoints |-> NoEndpoints,
     hasServer |-> FALSE, server |-> BlankInfo] }
Responses == [t \in Targets |-> ResponsesFor(t)]

\* SignalKClient.processHello(response): the server block it leaves, and whether
\* its last statement (resolveAppsEndpoint) raised
ProcessHello(resp, px, fbh, fbw, v) ==
  LET useFb == px \/ ~(resp.present /\ resp.hasEndpoints)
      eps == IF useFb THEN FallbackEndpoints(fbh, fbw) ELSE resp.endpoints
  IN [alias |-> useFb,
      own |-> IF useFb THEN NoEndpoints ELSE resp.endpoints,
      info |-> IF resp.present /\ resp.hasServer THEN resp.server ELSE FallbackServer,
      apiVersions |-> DOMAIN eps,
      eps |-> eps,
      throws |-> ResolveHttpEndpoint(eps, v).throws]

\* new WebSocket(url) raises SyntaxError unless url is an absolute url
ParsesAsUrl(u) == Contains(u, "://")

\* the url argument of openStream / openPlayback: left out (undefined), null,
\* or a string
UrlLabel(arg) ==
  IF arg = Undefined THEN "undefined" ELSE IF arg = Null THEN "null" ELSE "url"

\* openStream(url = this.hostname, ...): the url it hands to stream.open, ""
\* when it throws "Server has no advertised Stream endpoints!"
OpenStreamUrl(arg, host, eps, v) ==
  LET url == IF arg = Undefined THEN host ELSE arg
  IN IF Truthy(url) THEN url ELSE ResolveStreamEndpoint(eps, v)

\* a client method hands u (not empty) to stream.open(u, subscribe, token):
\* close(), then new WebSocket, which raises on a url it cannot parse
OpenThrough(op, label, u, subscribe, token) ==
  LET full == OpenUrl(u, streamEndpoint, subscribe, token, streamToken)
  IN /\ ParsesAsUrl(full) => Len(readyState) < MaxSockets
     /\ SetStream(IF ParsesAsUrl(full) THEN Open(CurStream, u, streamEndpoint)
                  ELSE Close(CurStream))
     /\ last' = Done(op, label, NoTarget, "",
                     IF ParsesAsUrl(full) THEN "true" ELSE "raised",
                     IF ParsesAsUrl(full) THEN Len(readyState) + 1 ELSE NoSocket)
     /\ Opens(full)
     /\ UNCHANGED <<transportVars, versionVars, hostVars, serverVars, flagVars, calls>>

\* a client method throws before it reaches stream.open
OpenRefused(op, label) ==
  /\ last' = Done(op, label, NoTarget, "", "raised", NoSocket)
  /\ Idle
  /\ UNCHANGED <<streamVars, transportVars, versionVars, hostVars, serverVars,
                 flagVars, calls>>

\* client.openStream(url, subscribe, token)
OpenStream(arg, subscribe, token) ==
  LET u == OpenStreamUrl(arg, hostname, ServerEndpoints, version)
  IN IF u = "" THEN OpenRefused("openStream", UrlLabel(arg))
     ELSE OpenThrough("openStream", UrlLabel(arg), u, subscribe, token)

\* the options of openPlayback: a function from the keys that are given to
\* their values; no keys when options is left out
NoPlayback == << >>
\* startTime.slice(0, startTime.indexOf(".")): without a "." indexOf gives -1
\* and slice drops the last character
SliceToDot(t) ==
  IF IndexOf(t, ".") = 0 THEN SubSeq(t, 1, Len(t) - 1)
  ELSE SubSeq(t, 1, IndexOf(t, ".") - 1)
\* openPlayback: the text pb it appends to the url
PlaybackQuery(options) ==
  (IF Has(options, "startTime") /\ options["startTime"] # ""
     THEN "?startTime=" \o SliceToDot(options["startTime"]) \o "Z" ELSE "")
  \o (IF Has(options, "playbackRate") /\ options["playbackRate"] # 0
        THEN "&playbackRate=" \o ToString(options["playbackRate"]) ELSE "")
\* openPlayback: the subscribe value it hands to stream.open
PlaybackSubscribe(options) ==
  IF options = NoPlayback THEN ""
  ELSE IF Has(options, "subscribe") /\ options["subscribe"] # ""
    THEN options["subscribe"] ELSE Undefined
\* openPlayback(url = this.hostname, ...): the url before pb is appended, ""
\* when it throws "Server has no advertised Stream endpoints!"
PlaybackUrl(arg, host, eps, v) ==
  LET url == IF arg = Undefined THEN host ELSE arg
  IN IF Truthy(url) THEN url
     ELSE ReplaceFirst(ResolveStreamEndpoint(eps, v), "stream", "playback")

\* client.openPlayback(url, options, token); connectPlayback calls it as
\* openPlayback("", options, this._token) once connect() has resolved
OpenPlayback(arg, options, token) ==
  LET u == PlaybackUrl(arg, hostname, ServerEndpoints, version)
  IN IF u = "" THEN OpenRefused("openPlayback", UrlLabel(arg))
     ELSE OpenThrough("openPlayback", UrlLabel(arg), u \o PlaybackQuery(options),
                      PlaybackSubscribe(options), token)

\* disconnectedFromServer() without the reset of server.info
DisconnectedFromServer_KeepsInfo ==
  [alias |-> FALSE, own |-> NoEndpoints, info |-> srvInfo, apiVersions |-> {},
   eps |-> NoEndpoints, throws |-> FALSE]

\* SignalKClient.disconnectedFromServer()
DisconnectedFromServer ==
  [alias |-> FALSE, own |-> NoEndpoints, info |-> BlankInfo, apiVersions |-> {},
   eps |-> NoEndpoints, throws |-> FALSE]

(***************************************************************************)
(* connect(), connectStream(), connectPlayback()                           *)
(***************************************************************************)
ConnectKinds == {"connect", "connectStream", "connectPlayback"}
FreeCall == [st |-> "free", kind |-> "", target |-> NoTarget]

\* SignalKClient.connect() from the point where the awaited hello() settles:
\* resp is the response, or NoResponse when hello() rejected.  The try block
\* closes the stream, runs processHello and wires the transports; when the
\* request failed or processHello raised, the catch block either does the same
\* from the fallback endpoints or clears the server block and rethrows.
\* getLoginStatus() only issues a request whose result is dropped: with the
\* server.info values drawn here (a version string is always present) it
\* neither raises nor changes any state.
ConnectOutcome(resp) ==
  LET ph == ProcessHello(resp, proxied, fbHttp, fbWs, version)
      fb == ProcessHello(NoResponse, proxied, fbHttp, fbWs, version)
  IN IF resp.present /\ ~ph.throws
       THEN [ok |-> TRUE, srv |-> ph, closes |-> TRUE,
             api |-> ResolveHttpEndpoint(ph.eps, version).url,
             stream |-> ResolveStreamEndpoint(ph.eps, version)]
     ELSE IF fallback
       THEN [ok |-> TRUE, srv |-> fb, closes |-> TRUE,
             api |-> ResolveHttpEndpoint(fb.eps, version).url,
             stream |-> ResolveStreamEndpoint(fb.eps, version)]
     ELSE [ok |-> FALSE, srv |-> DisconnectedFromServer, closes |-> resp.present,
           api |-> apiEndpoint, stream |-> streamEndpoint]

\* the state the promise returned to the caller is left in once connect() has
\* settled (ok) and the reactions attached to it have run; url is what
\* resolveStreamEndpoint() returns then
PromiseResult(kind, ok, url) ==
  CASE kind = "connect" -> IF ok THEN "resolved" ELSE "rejected"
    [] kind = "connectStream" ->
         IF ~ok THEN "pending" ELSE IF url = "" THEN "rejected" ELSE "resolved"
    [] kind = "connectPlayback" ->
         IF ok /\ url # "" THEN "resolved" ELSE "pending"

\* connectStream and connectPlayback open the stream when connect() resolved
\* and a stream url can be resolved
OpensStream(kind, ok, url) ==
  kind \in {"connectStream", "connectPlayback"} /\ ok /\ url # ""

\* the application calls connect / connectStream / connectPlayback with target
\* t: hello() runs init(t) and issues GET /signalk; the call then awaits
ConnectCall(c, kind, t) ==
  /\ calls[c].st = "free"
  /\ \A d \in DOMAIN calls : d < c => calls[d].st # "free"
  /\ LET i == InitClient(t.host, t.port, t.ssl, hostname)
     IN /\ hostname' = i.hostname
        /\ protocol' = i.protocol
        /\ port' = i.port
        /\ fbHttp' = i.fbHttp
        /\ fbWs' = i.fbWs
  /\ calls' = [calls EXCEPT ![c] = [st |-> "pending", kind |-> kind, target |-> t]]
  /\ last' = Done("call", kind, t, "", "pending", NoSocket)
  /\ Idle
  /\ UNCHANGED <<streamVars, transportVars, versionVars, serverVars, flagVars>>

\* the hello() of call c settles with resp and the rest of the call runs
HelloSettled(c, resp) ==
  LET call == calls[c]
      out == ConnectOutcome(resp)
      st1 == IF out.closes THEN Close(CurStream) ELSE CurStream
      opens == OpensStream(call.kind, out.ok, out.stream)
      \* both methods hand open() a non-empty url derived from out.stream:
      \* connectStream the url itself with its default subscribe "",
      \* connectPlayback (issued without options here) openPlayback("",
      \* undefined, this._token)
      st2 == IF opens THEN Open(st1, out.stream, out.stream) ELSE st1
      url == IF call.kind = "connectStream"
               THEN OpenUrl(out.stream, out.stream, "", Undefined, streamToken)
               ELSE OpenUrl(ReplaceFirst(out.stream, "stream", "playback"), out.stream,
                            "", clientToken, streamToken)
  IN /\ call.st = "pending"
     /\ opens => Len(readyState) < MaxSockets
     /\ SetStream(st2)
     /\ srvAlias' = out.srv.alias
     /\ srvOwn' = out.srv.own
     /\ srvInfo' = out.srv.info
     /\ apiVersions' = out.srv.apiVersions
     /\ apiEndpoint' = out.api
     /\ streamEndpoint' = out.stream
     /\ calls' = [calls EXCEPT ![c] = FreeCall]
     /\ last' = Done("settled", call.kind, call.target,
                     IF ~resp.present THEN "failed"
                     ELSE IF ProcessHello(resp, proxied, fbHttp, fbWs, version).throws
                       THEN "threw" ELSE "ok",
                     PromiseResult(call.kind, out.ok, out.stream),
                     IF opens THEN st2.ws ELSE NoSocket)
     /\ Opens(IF opens THEN url ELSE "")
     /\ UNCHANGED <<versionVars, hostVars, flagVars>>

\* GET /signalk of call c is answered with r
HelloResponse(c, r) ==
  /\ r.present
  /\ HelloSettled(c, r)

\* GET /signalk of call c fails (no server, bad status body, network error)
HelloFailure(c) == HelloSettled(c, NoResponse)

\* SignalKClient.disconnect()
Disconnect ==
  /\ SetStream(Close(CurStream))
  /\ last' = Last("disconnect", ws)
  /\ Idle
  /\ UNCHANGED <<transportVars, versionVars, hostVars, serverVars, flagVars, calls>>

\* the version setter without the test against server.apiVersions
SelectVersion_Always(n, cur, avail) == VLabel(n)

\* set version(val): the label the setter leaves in this._version
SelectVersion(n, cur, avail) ==
  IF avail = {} THEN VLabel(n)
  ELSE IF VLabel(n) \in avail THEN VLabel(n) ELSE cur

\* get version(): parseInt(this._version.slice(1))
GetVersion(label) == CHOOSE n \in 0..9 : VLabel(n) = label

\* set version(val)
SetVersion(n) ==
  /\ version' = SelectVersion(n, version, apiVersions)
  /\ apiVersion' = n
  /\ streamVersion' = n
  /\ last' = Last("version", NoSocket)
  /\ Idle
  /\ UNCHANGED <<streamVars, transportVars, hostVars, serverVars, flagVars, calls>>

\* client.fallback = b
SetFallback(b) ==
  /\ fallback' = b
  /\ last' = Last("fallback", NoSocket)
  /\ Idle
  /\ UNCHANGED <<proxied, streamVars, transportVars, versionVars, hostVars,
                 serverVars, calls>>

\* client.proxied = b
SetProxied(b) ==
  /\ proxied' = b
  /\ last' = Last("proxied", NoSocket)
  /\ Idle
  /\ UNCHANGED <<fallback, streamVars, transportVars, versionVars, hostVars,
                 serverVars, calls>>

(***************************************************************************)
(* The specification                                                       *)
(***************************************************************************)
\* the client as its constructor leaves it: init() ran with its defaults
\* the client and its transports after construction
ClientInit ==
  /\ ws = NoSocket
  /\ readyState = << >>
  /\ timers = {}
  /\ streamEndpoint = ""
  /\ streamVersion = 1
  /\ apiEndpoint = ""
  /\ apiVersion = 1
  /\ LET i == InitClient("localhost", 80, FALSE, "localhost")
     IN /\ hostname = i.hostname
        /\ protocol = i.protocol
        /\ port = i.port
        /\ fbHttp = i.fbHttp
        /\ fbWs = i.fbWs
  /\ version = "v1"
  /\ fallback = FALSE
  /\ proxied = FALSE
  /\ srvAlias = FALSE
  /\ srvOwn = NoEndpoints
  /\ srvInfo = BlankInfo
  /\ apiVersions = {}
  /\ clientToken = ""
  /\ apiToken = ""
  /\ streamToken = ""
  /\ tokenSource = "new"
  /\ filter = ""
  /\ selfId = ""
  /\ playbackMode = FALSE
  /\ filterArg = Undefined
  /\ filterSelf = ""
  /\ last = Last("new", NoSocket)
  /\ inbound = NoFrame
  /\ emitted = << >>
  /\ sent = << >>
  /\ opened = ""
  /\ fetched = << >>

\* no call is in flight
Init ==
  /\ ClientInit
  /\ calls = [c \in CallIds |-> FreeCall]
\* the same, with room for calls that overlap
InitOverlap ==
  /\ ClientInit
  /\ calls = [c \in OverlapIds |-> FreeCall]

\* ---- the stream transport under an application that opens, closes,
\* connects and disconnects in any order; the client keeps the configuration
\* its constructor gave it (version 1, fallback and proxied off) and talks to
\* one server that advertises v1 or nothing
StreamTargets == {[host |-> "h1", port |-> 3000, ssl |-> FALSE]}
StreamResponses ==
  [t \in StreamTargets |->
     {r \in Responses[t] :
        r.hasEndpoints /\ r.endpoints \in {ReportedEndpoints(t, "both", "none"), NoEndpoints}}]

NextStream ==
  \/ \E u \in OpenUrls : StreamOpen(u)
  \/ StreamClose
  \/ \E s \in SocketIds : SocketOpened(s)
  \/ \E s \in SocketIds : SocketClosed(s)
  \/ \E s \in SocketIds : WatchdogFire(s)
  \/ \E c \in CallIds, k \in ConnectKinds, t \in StreamTargets : ConnectCall(c, k, t)
  \/ \E c \in CallIds :
       calls[c].st = "pending" /\ \E r \in StreamResponses[calls[c].target] : HelloResponse(c, r)
  \/ \E c \in CallIds : HelloFailure(c)
  \/ Disconnect

SpecStream == Init /\ [][NextStream]_vars

\* ---- discovery and endpoint resolution under an application that sets
\* version, fallback and proxied before it first connects (as the README asks
\* for version), then connects to either server any number of times, waiting
\* for each call to settle before it makes the next; every shape of hello
\* response is drawn
Configuring == last.op \in {"new", "version", "fallback", "proxied"}
NoCallPending == \A c \in CallIds : calls[c].st = "free"

NextConnect ==
  \/ \E n \in VersionNumbers : Configuring /\ SetVersion(n)
  \/ \E b \in BOOLEAN : Configuring /\ SetFallback(b)
  \/ \E b \in BOOLEAN : Configuring /\ SetProxied(b)
  \/ \E c \in CallIds, k \in ConnectKinds, t \in Targets :
       NoCallPending /\ ConnectCall(c, k, t)
  \/ \E c \in CallIds :
       calls[c].st = "pending" /\ \E r \in Responses[calls[c].target] : HelloResponse(c, r)
  \/ \E c \in CallIds : HelloFailure(c)
  \/ \E s \in SocketIds : SocketOpened(s)
  \/ Disconnect

SpecConnect == Init /\ [][NextConnect]_vars

\* ---- the version setter under an application that assigns client.version
\* at any time, before and after it connects to one server that advertises
\* v1, v2, both or nothing, or that cannot be reached
VersionRequests == {1, 2, 3}
VersionResponses ==
  [t \in StreamTargets |->
     {r \in Responses[t] :
        r.hasEndpoints /\ r.endpoints \in {ReportedEndpoints(t, s1, s2) :
                                             s1 \in {"none", "both"}, s2 \in {"none", "both"}}}]

NextVersion ==
  \/ \E n \in VersionRequests : SetVersion(n)
  \/ \E c \in CallIds, k \in ConnectKinds, t \in StreamTargets :
       NoCallPending /\ ConnectCall(c, k, t)
  \/ \E c \in CallIds :
       calls[c].st = "pending" /\ \E r \in VersionResponses[calls[c].target] : HelloResponse(c, r)
  \/ \E c \in CallIds : HelloFailure(c)
  \/ Disconnect

SpecVersion == Init /\ [][NextVersion]_vars

\* ---- message handling under an application that opens the stream once,
\* assigns stream.filter at any time, and a server that sends frames of every
\* shape once the socket is open
FilterIds == {"", Null, "self", "vessels.self", "vessels.B"}
\* (version, self, startTime) of a frame
FrameHeads ==
  { <<Undefined, Undefined, Undefined>>, <<"1.0.0", Undefined, Undefined>>,
    <<Undefined, "vessels.A", Undefined>>, <<"1.0.0", "vessels.A", Undefined>>,
    <<"1.0.0", "vessels.B", Undefined>>, <<"1.0.0", "vessels.A", "t0">> }
FrameContexts == {Undefined, "vessels.A", "vessels.B"}
\* (requestId, login present, login.token) of a frame
FrameTails ==
  { <<Undefined, FALSE, Undefined>>, <<"r1", FALSE, Undefined>>,
    <<"r1", TRUE, Undefined>>, <<"r1", TRUE, "T1">> }
InboundFrames ==
  {BadJson, Bare("binary"), Bare("null"), Bare("primitive")} \cup
  {Frame("object", h[1], h[2], h[3], c, q[1], q[2], q[3]) :
     h \in FrameHeads, c \in FrameContexts, q \in FrameTails}

NextFrames ==
  \/ \E u \in OpenUrls : readyState = << >> /\ StreamOpen(u)
  \/ \E s \in SocketIds : SocketOpened(s)
  \/ \E id \in FilterIds : SetFilter(id)
  \/ \E s \in SocketIds, f \in InboundFrames : OnMessage(s, f)

SpecFrames == Init /\ [][NextFrames]_vars

\* ---- tokens and outgoing messages under an application that opens and
\* closes the stream, logs in over REST or over the stream, assigns
\* client.authToken and sends messages at any time
Tokens == {"", "T1", "T2"}
Cookies == {Undefined, "T1", "T2"}
\* responses with and without login.token, a Hello that carries a requestId
\* and a login, and a delta
TokenFrames ==
  {Frame("object", Undefined, Undefined, Undefined, Undefined, "r1", TRUE, t) : t \in Tokens}
  \cup
  { Frame("object", Undefined, Undefined, Undefined, Undefined, "r1", FALSE, Undefined),
    Frame("object", "1.0.0", "vessels.A", Undefined, Undefined, "r1", TRUE, "T2"),
    Frame("object", Undefined, Undefined, Undefined, "vessels.A", Undefined, FALSE, Undefined) }
Outcomes == {"", "sent", "dropped", "raised"}

NextTokens ==
  \/ \E u \in OpenUrls : StreamOpen(u)
  \/ StreamClose
  \/ \E s \in SocketIds : SocketOpened(s)
  \/ \E s \in SocketIds : SocketClosed(s)
  \/ \E t \in Tokens : SetAuthToken(t)
  \/ \E m \in {"login", "validate"}, ok \in BOOLEAN, c \in Cookies : AuthResponse(m, ok, c)
  \/ \E s \in SocketIds, f \in TokenFrames : OnMessage(s, f)
  \/ \E p \in Payloads, o \in Outcomes : SendRequest(p, o)
  \/ \E o \in Outcomes : SendUpdate(o)
  \/ \E o \in Outcomes : Subscribe(o)
  \/ \E o \in Outcomes : Unsubscribe(o)
  \/ \E o \in Outcomes : Send(o)

SpecTokens == Init /\ [][NextTokens]_vars

\* ---- the REST transport and logout under an application that connects to
\* one server (which advertises v1, or v1 and v2, or cannot be reached),
\* assigns version, and calls the REST methods and logout at any time, before
\* and after connecting
RestOverrides == {NoOverride, 1, 2}
RestPaths == {"vessels.self", "/resources/routes?limit=1.5"}
RestContexts == {"", "self"}
\* JSON texts of the values handed to put / post
RestValues == {"1.5", "{\"a\":1}"}
RestOps == {"get", "put", "putWithContext", "post", "delete"}
RestResponses ==
  [t \in StreamTargets |->
     {r \in Responses[t] :
        r.hasEndpoints /\ r.endpoints \in {ReportedEndpoints(t, "both", "none"),
                                            ReportedEndpoints(t, "both", "both")}}]

NextRest ==
  \/ \E n \in VersionNumbers : SetVersion(n)
  \/ \E c \in CallIds, t \in StreamTargets : NoCallPending /\ ConnectCall(c, "connect", t)
  \/ \E c \in CallIds :
       calls[c].st = "pending" /\ \E r \in RestResponses[calls[c].target] : HelloResponse(c, r)
  \/ \E c \in CallIds : HelloFailure(c)
  \/ \E o \in RestOverrides, p \in RestPaths : RestGet(o, p)
  \/ \E o \in RestOverrides, p \in RestPaths, v \in RestValues : RestPut(o, p, v)
  \/ \E o \in RestOverrides, x \in RestContexts, p \in RestPaths, v \in RestValues :
       RestPutWithContext(o, x, p, v)
  \/ \E o \in RestOverrides, p \in RestPaths, v \in RestValues : RestPost(o, p, v)
  \/ \E o \in RestOverrides, p \in RestPaths : RestDelete(o, p)
  \/ \E x \in LogoutOutcomes : Logout(x)

SpecRest == Init /\ [][NextRest]_vars

\* ---- opening the stream on demand under an application that connects to
\* one server (which advertises a v1 stream, v1 and v2 streams, or no stream,
\* or cannot be reached), assigns version, and calls openStream and
\* stream.open with and without a url
OpenArgs == {Undefined, Null, "", "ws://h1:3000/signalk/v1/stream"}
OpenResponses ==
  [t \in StreamTargets |->
     {r \in Responses[t] :
        r.hasEndpoints /\ r.endpoints \in {ReportedEndpoints(t, "both", "none"),
                                            ReportedEndpoints(t, "both", "both"),
                                            ReportedEndpoints(t, "http", "none")}}]

NextOpen ==
  \/ \E n \in VersionNumbers : SetVersion(n)
  \/ \E c \in CallIds, t \in StreamTargets : NoCallPending /\ ConnectCall(c, "connect", t)
  \/ \E c \in CallIds :
       calls[c].st = "pending" /\ \E r \in OpenResponses[calls[c].target] : HelloResponse(c, r)
  \/ \E c \in CallIds : HelloFailure(c)
  \/ \E a \in OpenArgs : OpenStream(a, Undefined, Undefined)
  \/ \E u \in OpenUrls : StreamOpen(u)
  \/ \E s \in SocketIds : SocketOpened(s)

SpecOpen == Init /\ [][NextOpen]_vars

\* subscriptions with options on one stream socket
SubscribeContexts == {"self", "*"}
SubscribePaths == {"*", "navigation.position"}
OptionKeys == {"period", "minPeriod", "format", "policy"}
OptionValues ==
  [period : {1000, 2000}, minPeriod : {200, 1000},
   format : {"delta", "full", "xml"}, policy : {"instant", "ideal", "fixed", "never"}]
\* every choice of keys with every choice of their values
SubscribeOptions ==
  {[k \in keys |-> v[k]] : keys \in SUBSET OptionKeys, v \in OptionValues}

NextSubscribe ==
  \/ \E u \in OpenUrls : readyState = << >> /\ StreamOpen(u)
  \/ \E s \in SocketIds : SocketOpened(s)
  \/ \E c \in SubscribeContexts, p \in SubscribePaths, opts \in SubscribeOptions,
          o \in Outcomes :
       SubscribeTo(c, p, opts, o)

SpecSubscribe == Init /\ [][NextSubscribe]_vars

\* the events of the sockets that open() and close() leave behind
EventFrames ==
  {BadJson, Bare("primitive"),
   Frame("object", "1.0.0", "vessels.A", Undefined, Undefined, Undefined, FALSE, Undefined),
   Frame("object", Undefined, Undefined, Undefined, "vessels.A", Undefined, FALSE, Undefined)}
NextEvents ==
  \/ \E u \in OpenUrls : StreamOpen(u)
  \/ StreamClose
  \/ \E s \in SocketIds : SocketOpened(s)
  \/ \E s \in SocketIds : SocketClosed(s)
  \/ \E s \in SocketIds : SocketFailed(s)
  \/ \E s \in SocketIds, f \in EventFrames : OnMessage(s, f)

SpecEvents == Init /\ [][NextEvents]_vars

\* connect calls that are issued while earlier ones still await GET /signalk;
\* every server answers with its endpoints
OverlapResponses ==
  [t \in Targets |->
     {r \in Responses[t] :
        r.hasEndpoints /\ r.endpoints \in {ReportedEndpoints(t, "both", "none"),
                                           ReportedEndpoints(t, "both", "both")}}]
NextOverlap ==
  \/ \E c \in OverlapIds, t \in Targets : ConnectCall(c, "connect", t)
  \/ \E c \in OverlapIds :
       calls[c].st = "pending" /\ \E r \in OverlapResponses[calls[c].target] : HelloResponse(c, r)
  \/ \E c \in OverlapIds : calls[c].st = "pending" /\ HelloFailure(c)

\* urls with and without a query, subscribe values and tokens given to open(),
\* openStream() and openPlayback()
QueryUrls ==
  {"ws://h1:3000/signalk/v1/stream", "ws://h1:3000/signalk/v1/stream?sendMeta=all"}
QuerySubscribes == {Undefined, "all"}
QueryTokens == {Undefined, "T2"}
PlaybackOptions ==
  {NoPlayback,
   [startTime |-> "2020-01-01T00:00:00.000Z"],
   [startTime |-> "2020-01-01T00:00:00.000Z", playbackRate |-> 2],
   [startTime |-> "2020-01-01T00:00:00.000Z", subscribe |-> "all"],
   [startTime |-> "2020-01-01T00:00:00.000Z", playbackRate |-> 2, subscribe |-> "all"],
   [playbackRate |-> 2],
   [subscribe |-> "all"]}
QueryResponses ==
  [t \in StreamTargets |->
     {r \in Responses[t] : r.hasEndpoints /\ r.endpoints = ReportedEndpoints(t, "both", "none")}]
NextQuery ==
  \/ \E t \in {"", "T1"} : SetAuthToken(t)
  \/ \E c \in CallIds, t \in StreamTargets : NoCallPending /\ ConnectCall(c, "connect", t)
  \/ \E c \in CallIds :
       calls[c].st = "pending" /\ \E r \in QueryResponses[calls[c].target] : HelloResponse(c, r)
  \/ \E u \in QueryUrls, sub \in QuerySubscribes, tok \in QueryTokens :
       StreamOpenWith(u, sub, tok)
  \/ \E u \in QueryUrls \cup {Null}, sub \in QuerySubscribes, tok \in QueryTokens :
       OpenStream(u, sub, tok)
  \/ \E u \in QueryUrls \cup {""}, opts \in PlaybackOptions, tok \in QueryTokens :
       OpenPlayback(u, opts, tok)

SpecQuery == Init /\ [][NextQuery]_vars

SpecOverlap == InitOverlap /\ [][NextOverlap]_vars

(***************************************************************************)
(* Properties of the stream transport (under SpecStream)                   *)
(***************************************************************************)
Sockets == 1..Len(readyState)
\* a socket on which neither close() was called nor the peer closed
Live(s) == readyState[s] \in {CONNECTING, OPEN}

\* C1: at most one socket is live at any time, the live socket is the one the
\* transport holds, and when open() (called directly or by connectStream /
\* connectPlayback) has just created a socket every earlier socket has been
\* closed.
C1_AtMostOneLiveSocket ==
  /\ Cardinality({s \in Sockets : Live(s)}) <= 1
  /\ \A s \in Sockets : Live(s) => ws = s
  /\ (last.op \in {"open", "settled"} /\ last.sock # NoSocket) =>
       \A s \in Sockets : s # last.sock => readyState[s] \in {CLOSING, CLOSED}
\* open() has just replaced a socket that was still connecting or open
C1_Witness ==
  /\ last.op = "open"
  /\ last.sock = 2
  /\ readyState = <<CLOSING, CONNECTING>>
  /\ ws = 2

\* C2: a watchdog whose own socket is no longer connecting (it opened, it
\* closed, or close() was called on it) changes neither the socket handle
\* nor any socket's readyState when it fires.
C2_SettledWatchdogClosesNothing ==
  [][\A s \in SocketIds :
       (WatchdogFire(s) /\ readyState[s] # CONNECTING) =>
         (ws' = ws /\ readyState' = readyState)]_vars

\* C3: when the watchdog of socket s fires while s is neither OPEN nor CLOSED,
\* s ends up closing or closed and is no longer the socket handle; when it
\* fires while s is OPEN nothing changes.
C3_WatchdogForcesClose ==
  [][\A s \in SocketIds :
       WatchdogFire(s) =>
         /\ readyState[s] \notin {OPEN, CLOSED} =>
              (readyState'[s] \in {CLOSING, CLOSED} /\ ws' # s)
         /\ readyState[s] = OPEN =>
              (ws' = ws /\ readyState' = readyState)]_vars
\* the only socket ever created was still connecting when its watchdog fired
C3_Witness ==
  /\ last.op = "watchdog"
  /\ last.sock = 1
  /\ last.result = "warned"
  /\ readyState = <<CLOSING>>
  /\ ws = NoSocket

\* C4: isOpen reads true exactly when a socket handle exists and that socket
\* is OPEN.
C4_IsOpenIffOpen ==
  IsOpen(CurStream) <=> (ws # NoSocket /\ readyState[ws] = OPEN)

\* C10: right after disconnect() the socket handle is gone, no socket is live
\* and the server block is empty.
C10_DisconnectClearsServer ==
  last.op = "disconnect" =>
    /\ ws = NoSocket
    /\ \A s \in Sockets : ~Live(s)
    /\ DOMAIN ServerEndpoints = {}
    /\ srvInfo = BlankInfo
    /\ apiVersions = {}

(***************************************************************************)
(* Properties of discovery and connect (under SpecConnect)                 *)
(***************************************************************************)
\* the call whose hello() settled last ran connect() to a true result
ConnectResolved == last.op = "settled" /\ (last.hello = "ok" \/ fallback)
\* the call whose hello() settled last had its request fail
DiscoveryFailed == last.op = "settled" /\ last.hello = "failed"
\* ... or had its request fail or the processing of its response raise
CatchTaken == last.op = "settled" /\ last.hello # "ok"
\* the server block is empty
ServerBlockEmpty ==
  /\ DOMAIN ServerEndpoints = {}
  /\ srvInfo = BlankInfo
  /\ apiVersions = {}

\* C5: once everything a connectStream / connectPlayback call does has run,
\* its promise is resolved if the stream was opened and rejected if not; it
\* is never left pending.
C5_StreamPromiseSettles ==
  (last.op = "settled" /\ last.kind \in {"connectStream", "connectPlayback"}) =>
    last.result = IF last.sock # NoSocket THEN "resolved" ELSE "rejected"

\* the url server.endpoints advertises for field f ("http" or "ws") under
\* label v
Advertised(eps, v, f) == Has(eps, v) /\ Truthy(eps[v][f])
\* the documented tie-break: the selected version, else v1, else nothing
Preferred(eps, v, f) ==
  IF Advertised(eps, v, f) THEN eps[v][f]
  ELSE IF Advertised(eps, "v1", f) THEN eps["v1"][f]
  ELSE ""

\* C6: after a successful connect api.endpoint and stream.endpoint are the
\* urls advertised under the selected version, else those under v1, else "".
C6_EndpointsPreferVersionThenV1 ==
  ConnectResolved =>
    /\ apiEndpoint = Preferred(ServerEndpoints, version, "http")
    /\ streamEndpoint = Preferred(ServerEndpoints, version, "ws")

\* C7: when discovery failed (the hello request failed, or handling its
\* response raised) and fallback is off, connect() is rejected and the server
\* block is empty.
C7_FailureClearsServer ==
  (CatchTaken /\ ~fallback) =>
    /\ last.kind = "connect" => last.result = "rejected"
    /\ ServerBlockEmpty
\* a connect() to a dead server was rejected after an earlier connect had
\* discovered endpoints
C7_Witness ==
  /\ last.op = "settled"
  /\ last.kind = "connect"
  /\ last.hello = "failed"
  /\ last.result = "rejected"
  /\ ~fallback
  /\ apiEndpoint # ""
  /\ ServerBlockEmpty

\* the endpoints init() synthesizes from a connect target
Synthesized(t) == InitClient(t.host, t.port, t.ssl, "")

\* C8: when discovery failed and fallback is on, connect() resolves, no
\* socket that existed before is live, and both transports point at the
\* endpoints synthesized from the target of the call.
C8_FallbackWiresSynthesized ==
  (DiscoveryFailed /\ fallback) =>
    /\ last.kind = "connect" => last.result = "resolved"
    /\ \A s \in Sockets : s # last.sock => ~Live(s)
    /\ apiEndpoint = Synthesized(last.target).fbHttp
    /\ streamEndpoint = Synthesized(last.target).fbWs

\* C9: with proxied on, after a successful connect both transports point at
\* the endpoints synthesized from the target of the call.
C9_ProxiedUsesConnectionAddress ==
  (ConnectResolved /\ proxied) =>
    /\ apiEndpoint = Synthesized(last.target).fbHttp
    /\ streamEndpoint = Synthesized(last.target).fbWs

\* C11: assigning client.version = N while server.apiVersions is non-empty
\* and lacks "vN" leaves client.version as it was; while server.apiVersions is
\* empty the assignment is accepted and client.version reads N afterwards
C11_VersionSetter ==
  [][\A n \in VersionRequests :
       SetVersion(n) =>
         /\ (apiVersions # {} /\ VLabel(n) \notin apiVersions) => version' = version
         /\ apiVersions = {} => GetVersion(version') = n]_vars
\* an assignment of a version the server does not advertise was rejected
C11_Witness ==
  /\ last.op = "version"
  /\ apiVersions # {}
  /\ VLabel(apiVersion) \notin apiVersions
  /\ version # VLabel(apiVersion)

\* C12: after every assignment to client.version, api.version and
\* stream.version equal the version client.version reads
C12_TransportsFollowSelected ==
  last.op = "version" =>
    /\ apiVersion = GetVersion(version)
    /\ streamVersion = GetVersion(version)

\* the handler that ran last was ws.onmessage with a frame that parsed to an
\* object
GotObject == last.op = "onmessage" /\ inbound.kind = "object"
\* the one message event of the socket that delivered the frame
OneMessage == <<Event("message", last.sock)>>
\* the frame has both a version and a self field
HelloShaped == inbound.version # Undefined /\ inbound.self # Undefined
\* the frame is neither Hello nor Response and has a context field
PlainDelta ==
  /\ GotObject
  /\ ~HelloShaped
  /\ inbound.requestId = Undefined
  /\ inbound.context # Undefined

\* C14: a frame with both version and self is handled as Hello whatever else
\* it carries and whatever the filter is (selfId becomes its self value, one
\* message event); a frame that is not Hello and has a requestId is emitted
\* exactly once whatever the filter and its context are
C14_HelloThenResponseBeforeFilter ==
  GotObject =>
    /\ HelloShaped => (selfId = inbound.self /\ emitted = OneMessage)
    /\ (~HelloShaped /\ inbound.requestId # Undefined) => emitted = OneMessage
\* a Hello that also carries a requestId and a context the filter rejects
C14_Witness ==
  /\ GotObject
  /\ HelloShaped
  /\ inbound.requestId # Undefined
  /\ inbound.context # Undefined
  /\ Truthy(filter)
  /\ inbound.context # filter
  /\ selfId = inbound.self
  /\ emitted = OneMessage

\* C15: while a non-empty filter F is set, a frame that is neither Hello nor
\* Response and has a context produces a message event exactly when its
\* context equals F; while the filter is empty or null it produces exactly one
C15_FilterSelectsDeltas ==
  PlainDelta =>
    IF filter # "" /\ filter # Null
      THEN /\ emitted \in {<< >>, OneMessage}
           /\ emitted = OneMessage <=> inbound.context = filter
      ELSE emitted = OneMessage
\* a delta of another vessel was dropped
C15_Witness ==
  /\ PlainDelta
  /\ Truthy(filter)
  /\ inbound.context # filter
  /\ emitted = << >>

C18_BadJsonIsDropped ==
  [][\A s \in SocketIds :
       OnMessage(s, BadJson) =>
         /\ emitted' = << >>
         /\ UNCHANGED <<selfId, playbackMode, streamToken, filter>>]_vars
\* a frame that does not parse arrived after a Hello, a login response and a
\* filter assignment
C18_Witness ==
  /\ last.op = "onmessage"
  /\ inbound = BadJson
  /\ selfId # ""
  /\ streamToken # ""
  /\ Truthy(filter)
  /\ emitted = << >>

\* C13: in every reachable state the bearer token held by the client, by the
\* REST transport and by the stream transport are equal
C13_OneToken == clientToken = apiToken /\ apiToken = streamToken

\* the handler that ran last handed a message to an open socket
Transmitted == sent # << >>
\* the frame is classified as a Response that carries login.token
ResponseWithToken ==
  /\ GotObject
  /\ ~HelloShaped
  /\ inbound.requestId # Undefined
  /\ inbound.hasLogin
  /\ inbound.loginToken # Undefined
\* the session token was last assigned by a Response frame
TokenFromStream == tokenSource = "onmessage"
EnvelopeOps == {"sendUpdate", "subscribe", "unsubscribe"}

\* C19: after a Response frame carrying login.token = T, every sendRequest
\* whose payload has no login key and every sendUpdate, subscribe and
\* unsubscribe transmits a message whose token field is T, until the token is
\* changed again; a sendRequest whose payload has a login key never gets the
\* session token attached
C19_SessionTokenOnEveryMessage ==
  /\ ResponseWithToken => (streamToken = inbound.loginToken /\ TokenFromStream)
  /\ (TokenFromStream /\ Transmitted) =>
       /\ (last.op = "sendRequest" /\ ~HasLoginKey(last.kind)) =>
            sent[1].token = streamToken
       /\ last.op \in EnvelopeOps => sent[1].token = streamToken
       /\ (last.op = "sendRequest" /\ HasLoginKey(last.kind)) =>
            sent[1].token = OwnToken(last.kind)
\* C19 as amended: after a Response frame carrying a non-empty login.token = T,
\* every sendRequest whose payload has neither a login key nor a token key of
\* its own and every sendUpdate, subscribe and unsubscribe transmits a message
\* whose token field is T, until the token is changed again; a sendRequest
\* whose payload has a login key never gets the session token attached
C19_SessionTokenUnlessOverridden ==
  /\ ResponseWithToken => (streamToken = inbound.loginToken /\ TokenFromStream)
  /\ (TokenFromStream /\ Transmitted) =>
       /\ (/\ last.op = "sendRequest"
           /\ ~HasLoginKey(last.kind)
           /\ OwnToken(last.kind) = Undefined
           /\ streamToken # "") =>
            sent[1].token = streamToken
       /\ (last.op \in EnvelopeOps /\ streamToken # "") => sent[1].token = streamToken
       /\ (last.op = "sendRequest" /\ HasLoginKey(last.kind)) =>
            sent[1].token = OwnToken(last.kind)
\* a request without a login key was transmitted with the token a Response
\* frame delivered
C19_Witness ==
  /\ TokenFromStream
  /\ streamToken = "T1"
  /\ clientToken # "T1"
  /\ last.op = "sendRequest"
  /\ last.kind = "plain"
  /\ Transmitted
  /\ sent[1].token = "T1"

\* C20: send(data) transmits nothing and raises nothing when there is no open
\* socket (no handle, or a socket that is connecting, closing or closed); it
\* hands data to the socket only when the socket is open
C20_SendNeedsOpenSocket ==
  (last.op = "send" /\ (ws = NoSocket \/ readyState[ws] # OPEN)) =>
    (sent = << >> /\ last.result = "")

\* C21: logout() resolves false when its request fails and true only when the
\* request succeeded
C21_LogoutReportsFailure ==
  last.op = "logout" => (last.result = "true" <=> last.kind = "ok")

\* C22: while api.endpoint is empty, get, put, putWithContext, post and delete
\* issue no request and resolve to undefined, whatever their arguments are
C22_NoEndpointNoRequest ==
  (last.op \in RestOps /\ apiEndpoint = "") =>
    (fetched = << >> /\ last.result = "undefined")
\* put with an explicit version before any connect
C22_Witness ==
  /\ last.op = "put"
  /\ last.kind = "v2"
  /\ apiEndpoint = ""
  /\ fetched = << >>

\* the version put and putWithContext wrap the value by
EffectiveVersion(o) == IF o # NoOverride THEN o ELSE apiVersion
PutBody(o, value) ==
  /\ fetched' # << >>
  /\ EffectiveVersion(o) = 1 => fetched'[1].body = "{\"value\":" \o value \o "}"
  /\ EffectiveVersion(o) >= 2 => fetched'[1].body = value

\* C23: put and putWithContext send {value: v} when the effective major
\* version (the override if given, else api.version) is 1 and v unwrapped when
\* it is 2 or higher
C23_PutWrapsAtVersionOne ==
  [][/\ (apiEndpoint # "" /\ last'.op = "put") =>
          \A o \in RestOverrides, p \in RestPaths, v \in RestValues :
            (last'.kind = OverrideLabel(o) /\ RestPut(o, p, v)) => PutBody(o, v)
     /\ (apiEndpoint # "" /\ last'.op = "putWithContext") =>
          \A o \in RestOverrides, x \in RestContexts, p \in RestPaths, v \in RestValues :
            (last'.kind = OverrideLabel(o) /\ RestPutWithContext(o, x, p, v)) =>
              PutBody(o, v)]_vars
\* a put that overrides version 1 with 2 sent the value unwrapped
C23_Witness ==
  /\ last.op = "put"
  /\ last.kind = "v2"
  /\ apiVersion = 1
  /\ fetched # << >>
  /\ fetched[1].body \in RestValues

\* the last connect succeeded: the server block is populated
Connected == apiVersions # {}
\* the stream endpoint discovered for the preferred version
Discovered == ResolveStreamEndpoint(ServerEndpoints, version)

\* C24: after a successful connect, openStream and stream.open called with a
\* null or an undefined url open the socket at the discovered stream endpoint
\* for the preferred version; openStream throws instead of opening a socket
\* when no stream endpoint can be resolved
C24_OpenAtDiscoveredEndpoint ==
  /\ (Connected /\ last.op = "openStream" /\ last.kind \in {"null", "undefined"}) =>
       IF Discovered # ""
         THEN /\ last.result = "true"
              /\ opened = Discovered
              /\ ws # NoSocket
              /\ last.sock = ws
         ELSE last.result = "raised" /\ last.sock = NoSocket
  /\ (Connected /\ last.op = "open" /\ last.kind = "null" /\ Discovered # "") =>
       (opened = Discovered /\ ws # NoSocket /\ last.sock = ws)


(***************************************************************************)
(* C25                                                                     *)
(***************************************************************************)
\* the entry of the subscribe message that was sent last
SentEntry == sent[1].subscribe[1]
\* the entry agrees with the options: period and minPeriod are the ones
\* supplied, format and policy are there exactly when they are allowed values
EntryFollows(e, options) ==
  /\ Given(options, "period") => (Has(e, "period") /\ e["period"] = options["period"])
  /\ Given(options, "minPeriod") =>
       (Has(e, "minPeriod") /\ e["minPeriod"] = options["minPeriod"])
  /\ Has(e, "format") <=> (Given(options, "format") /\ options["format"] \in AllowedFormats)
  /\ Has(e, "format") => e["format"] = options["format"]
  /\ Has(e, "policy") <=> (Given(options, "policy") /\ options["policy"] \in AllowedPolicies)
  /\ Has(e, "policy") => e["policy"] = options["policy"]

\* C25: a subscribe with a single path sends one entry, and for whichever
\* options the call was given that make subscribe send this entry, the entry's
\* period and minPeriod are options.period and options.minPeriod and its format
\* and policy are included only when they are allowed values
C25_EntryCarriesOptions ==
  (last.op = "subscribe" /\ sent # << >>) =>
    /\ Len(sent[1].subscribe) = 1
    /\ \A opts \in SubscribeOptions :
         SentEntry = SubscriptionEntry(SentEntry["path"], opts) =>
           EntryFollows(SentEntry, opts)


(***************************************************************************)
(* C26                                                                     *)
(***************************************************************************)
\* C26: every connect, close, error or message event that a handler delivers to
\* the listeners originates from the socket the stream holds at that time:
\* none comes from a socket that open() has replaced or close() has discarded
C26_EventsFromCurrentSocket ==
  \A i \in DOMAIN emitted : emitted[i].sock = ws


(***************************************************************************)
(* C27                                                                     *)
(***************************************************************************)
\* the stream holds no socket that is connecting or open
StreamSocketClosed == ws = NoSocket \/ readyState[ws] \in {CLOSING, CLOSED}

\* C27: in every reachable state api.endpoint and stream.endpoint are non-empty
\* only if server.apiVersions is non-empty, and once a connect has failed with
\* fallback disabled the stream socket of the earlier connection is closed
C27_EndpointsOnlyWithServerInfo ==
  /\ (apiEndpoint # "" \/ streamEndpoint # "") => apiVersions # {}
  /\ (CatchTaken /\ ~fallback) => StreamSocketClosed


(***************************************************************************)
(* C28                                                                     *)
(***************************************************************************)
\* url is an address on the host the client stores
OnStoredHost(url) == Contains(url, "://" \o hostname \o ":")
\* every connect call has completed and the one that completed last had its
\* discovery answered
AllConnectsDone ==
  /\ last.op = "settled"
  /\ last.hello = "ok"
  /\ \A c \in DOMAIN calls : calls[c].st = "free"

\* C28: once all connect calls have completed, overlapping or not and in
\* whatever order their discovery responses arrived, server.endpoints,
\* api.endpoint and stream.endpoint describe the stored hostname, which is the
\* host of the connect issued last
C28_LastIssuedConnectWins ==
  AllConnectsDone =>
    /\ OnStoredHost(apiEndpoint)
    /\ OnStoredHost(streamEndpoint)
    /\ \A v \in DOMAIN ServerEndpoints :
         OnStoredHost(ServerEndpoints[v].http) /\ OnStoredHost(ServerEndpoints[v].ws)


(***************************************************************************)
(* C29                                                                     *)
(***************************************************************************)
\* u has at most one "?", and every "&" of u comes after it
WellFormedQuery(u) ==
  /\ Count(u, "?") <= 1
  /\ Contains(u, "&") => (Contains(u, "?") /\ IndexOf(u, "?") < IndexOf(u, "&"))

\* C29: the url that open() hands to the socket has a well-formed query
\* string: its first parameter is introduced by "?", the others by "&", for
\* every combination of url, subscribe value, token and playback options
C29_QueryIsWellFormed ==
  opened # "" => WellFormedQuery(opened)


(***************************************************************************)
(* C30                                                                     *)
(***************************************************************************)
\* C30: handling an inbound frame never raises: whatever the frame is (data
\* that is not a string, JSON null, a JSON primitive, an object with any
\* fields), parseOnMessage returns normally having emitted nothing or exactly
\* one message event
C30_FrameHandlingNeverRaises ==
  last.op = "onmessage" =>
    /\ last.result # "raised"
    /\ emitted \in {<< >>, OneMessage}

=============================================================================
